---- MODULE Spec2Model ----
(***************************************************************************)
(* The persistent cross-instance listener coordinator                      *)
(* (src/src/lib/persistent-listener.ts) and its use by the Discord gateway *)
(* endpoint (src/src/app/api/discord/gateway/route.ts).                    *)
(*                                                                         *)
(* One session = one invocation of start().  A session's side-channel      *)
(* (setupRedisPubSub) is a sequence of awaits; every await is a step of    *)
(* the model, and steps of different sessions interleave freely.           *)
(***************************************************************************)
EXTENDS Integers, Sequences, FiniteSets, TLC

\* ------------------------------------------------------------------ bounds
\* Number of invocations of start() on the one listener name.
MaxSessions == 2
\* Math.random() suffixes range over 0..MaxRand.
MaxRand == 1
\* Announcements published on the channel by sessions of the same listener
\* name that run outside the modelled invocations.
MaxExternal == 2
\* Entries the recording list holds at most.
MaxRecords == 2

Sessions == 1..MaxSessions

\* ------------------------------------------------- JavaScript values
\* number | NaN | undefined, as records of one shape.
Num(n) == [kind |-> "num", v |-> n]
NaN == [kind |-> "nan", v |-> 0]
Undefined == [kind |-> "undefined", v |-> 0]

\* URLSearchParams.get("duration"): null when the parameter is absent,
\* otherwise its text (a sequence of characters).
NoParam == [present |-> FALSE, text |-> <<>>]
Param(t) == [present |-> TRUE, text |-> t]

\* options.getDuration: absent, or a function whose result is known.
NoGetDuration == [given |-> FALSE, result |-> Undefined]
GetDuration(r) == [given |-> TRUE, result |-> r]

DigitChars == <<"0", "1", "2", "3", "4", "5", "6", "7", "8", "9">>
IsDigit(c) == \E i \in 1..10 : DigitChars[i] = c
DigitVal(c) == (CHOOSE i \in 1..10 : DigitChars[i] = c) - 1

RECURSIVE StripWS(_)
StripWS(t) ==
    IF t # <<>> /\ Head(t) = " " THEN StripWS(Tail(t)) ELSE t

RECURSIVE ParseDigits(_, _, _)
ParseDigits(t, acc, seen) ==
    IF t # <<>> /\ IsDigit(Head(t))
    THEN ParseDigits(Tail(t), acc * 10 + DigitVal(Head(t)), TRUE)
    ELSE IF seen THEN Num(acc) ELSE NaN

\* Number.parseInt(text, 10): leading white space, an optional sign, the
\* longest prefix of decimal digits; NaN when there is no digit.
ParseInt(t) ==
    LET s1 == StripWS(t)
        signed == s1 # <<>> /\ Head(s1) \in {"-", "+"}
        neg == s1 # <<>> /\ Head(s1) = "-"
        r == ParseDigits(IF signed THEN Tail(s1) ELSE s1, 0, FALSE)
    IN  IF r.kind = "num" THEN Num(IF neg THEN 0 - r.v ELSE r.v) ELSE NaN

\* a ?? b
Coalesce(a, b) == IF a.kind = "undefined" THEN b ELSE a

\* Math.min(a, b): NaN when either argument is NaN.
MathMin(a, b) ==
    IF a.kind = "nan" \/ b.kind = "nan" THEN NaN
    ELSE IF a.v < b.v THEN a ELSE b

\* ------------------------------------------------------- configuration
DEFAULT_DURATION_MS == 600 * 1000

\* createPersistentListener's config as the gateway route builds it.
GatewayConfig(hasRedis) ==
    [name |-> "discord-gateway",
     redisUrl |-> hasRedis,
     defaultDurationMs |-> DEFAULT_DURATION_MS,
     maxDurationMs |-> DEFAULT_DURATION_MS]

\* Other configs createPersistentListener accepts (default below, equal to
\* and above the maximum).
ListenerConfigs ==
    {[name |-> "discord-gateway", redisUrl |-> FALSE,
      defaultDurationMs |-> d, maxDurationMs |-> m] :
        d \in {300000, 600000, 900000}, m \in {300000, 600000}}
    \cup {GatewayConfig(FALSE)}

\* ---------------------------------------------------- duration of a run
\* start(), the "Parse duration from request" expression.
RequestedDuration(getDuration, param) ==
    IF getDuration.given THEN getDuration.result
    ELSE IF param.present /\ param.text # <<>> THEN ParseInt(param.text)
    ELSE Undefined

EffectiveDurationIgnoresMax(requested, cfg) ==
    Coalesce(requested, Num(cfg.defaultDurationMs))

EffectiveDuration(requested, cfg) ==
    MathMin(Coalesce(requested, Num(cfg.defaultDurationMs)),
            Num(cfg.maxDurationMs))

\* The texts of the duration query parameter the model tries.
DurationTexts ==
    {<<>>, <<"0">>, <<"-", "5">>, <<"a", "b", "c">>,
     <<"1", "0", "0", "0", "0", "0">>,
     <<"9", "9", "9", "9", "9", "9", "9", "9", "9">>,
     <<"1", "2", "a">>, <<" ", "4", "2">>, <<"+", "7">>,
     <<"6", "0", "0", "0", "0", "0">>}
DurationParams == {NoParam} \cup {Param(t) : t \in DurationTexts}
GetDurationResults ==
    {Undefined, NaN, Num(0), Num(0 - 1), Num(100000), Num(600000),
     Num(600001)}
GetDurationOptions == {NoGetDuration} \cup {GetDuration(r) : r \in GetDurationResults}

\* The scheduler's request carries no duration parameter.
CronParams == {NoParam}

\* setTimeout's delay for the side-channel's wait: durationMs + 5000, and 1
\* when that is NaN or below 1 (the host's timer rule).
GracePeriodMs == 5000
TimerDelay(d) ==
    IF d.kind # "num" THEN 1
    ELSE IF d.v + GracePeriodMs < 1 THEN 1 ELSE d.v + GracePeriodMs

\* ------------------------------------------------------------ responses
NoResponse == [status |-> 0, body |-> <<>>]
RunResponses ==
    {[status |-> 200, body |-> <<"gateway listener finished">>],
     [status |-> 503, body |-> <<"gateway unavailable">>]}
\* What run may throw: an Error with a message, or a non-Error value.
RunErrors ==
    {[isError |-> TRUE, message |-> "socket closed", str |-> "Error: socket closed"],
     [isError |-> FALSE, message |-> "", str |-> "oops"]}
NoError == [isError |-> FALSE, message |-> "", str |-> ""]

\* error instanceof Error ? error.message : String(error)
ErrorMessage(err) == IF err.isError THEN err.message ELSE err.str

\* start()'s catch block: the 500 response.
ErrorResponse(cfg, err) ==
    [status |-> 500,
     body |-> <<"error", "Failed to run", cfg.name, "listener",
                "message", ErrorMessage(err)>>]

NoOutcome == [kind |-> "none", resp |-> NoResponse, err |-> NoError]
Returned(r) == [kind |-> "returned", resp |-> r, err |-> NoError]
Threw(e) == [kind |-> "threw", resp |-> NoResponse, err |-> e]

\* ------------------------------------------------- the gateway's inputs
\* An environment variable is its text; "" when it is unset (or empty: the
\* route tests each with ! or ||, which take the two alike).
Secrets == {"", "s3cret"}
Hosts == {"", "app.example"}

\* process.env as the gateway route reads it.  discordToken stands for
\* DISCORD_BOT_TOKEN, which decides whether buildAdapters creates the
\* Discord adapter.
GatewayEnvs ==
    [cronSecret : Secrets,
     discordToken : BOOLEAN,
     productionUrl : Hosts,
     vercelUrl : {"", "deploy.example"},
     publicBaseUrl : {"", "base.example"},
     bypassSecret : {"", "byp4ss"}]

\* The environment of a listener whose route calls start() and nothing else.
DirectEnv ==
    [cronSecret |-> "s3cret", discordToken |-> TRUE,
     productionUrl |-> "app.example", vercelUrl |-> "", publicBaseUrl |-> "",
     bypassSecret |-> ""]

\* request.headers.get("authorization"): null, or the header's text.
NoHeader == [present |-> FALSE, text |-> <<>>]
Header(t) == [present |-> TRUE, text |-> t]

\* `Bearer ${cronSecret}`
Bearer(secret) == <<"Bearer", " ", secret>>

\* The Authorization headers the model tries.
AuthHeaders ==
    {NoHeader,
     Header(Bearer("s3cret")),
     Header(Bearer("wrong")),
     Header(Bearer("")),
     Header(Bearer("undefined")),
     Header(<<"s3cret">>),
     Header(<<"bearer", " ", "s3cret">>),
     Header(<<"Bearer", " ", "s3cret", "x">>)}

\* authHeader !== `Bearer ${cronSecret}`
UnauthorizedWhenPresent(header, secret) ==
    header.present /\ header.text # Bearer(secret)

Unauthorized(header, secret) ==
    ~(header.present /\ header.text = Bearer(secret))

\* a || b on texts
OrElse(a, b) == IF a # "" THEN a ELSE b

\* process.env.VERCEL_PROJECT_PRODUCTION_URL || process.env.VERCEL_URL ||
\* process.env.NEXT_PUBLIC_BASE_URL
BaseUrl(e) == OrElse(OrElse(e.productionUrl, e.vercelUrl), e.publicBaseUrl)

\* webhookUrl: undefined (the empty tuple here) without a base URL, else
\* `https://${baseUrl}/api/webhooks/discord${queryParam}`.
NoUrl == <<>>

WebhookUrlAlways(e) ==
    <<"https://", BaseUrl(e), "/api/webhooks/discord">>

WebhookUrl(e) ==
    IF BaseUrl(e) = "" THEN NoUrl
    ELSE <<"https://", BaseUrl(e), "/api/webhooks/discord">>
         \o (IF e.bypassSecret # ""
             THEN <<"?x-vercel-protection-bypass=", e.bypassSecret>>
             ELSE <<>>)

\* The responses GET builds itself.
SecretMissingResponse == [status |-> 500, body |-> <<"CRON_SECRET not configured">>]
UnauthorizedResponse == [status |-> 401, body |-> <<"Unauthorized">>]
AdapterMissingResponse == [status |-> 404, body |-> <<"Discord adapter not configured">>]

\* ------------------------------------------- the preview-branch proxy
\* What a settings POST may carry as body.url: nothing (or an empty text),
\* a text new URL() rejects, a URL that can serve as a base, and a URL
\* new URL() accepts but that cannot serve as a base.
PreviewUrls == {"https://pr-1.example", "https://pr-2.example"}
OpaqueUrls == {"mailto:dev@example.com"}
InvalidUrls == {"not a url"}
PostedUrls == {""} \cup PreviewUrls \cup OpaqueUrls \cup InvalidUrls

\* new URL(url) does not throw.
ParsesAsUrl(u) == u \in PreviewUrls \cup OpaqueUrls
\* new URL(path, base) does not throw.
UsableAsBase(u) == u \in PreviewUrls

\* The paths the middleware's matcher lets through to it.
WebhookPaths == {"/api/webhooks/discord", "/api/webhooks/slack"}

NoDecision == [kind |-> "none", target |-> <<>>, stored |-> "", path |-> ""]
NoPost == [status |-> 0, url |-> ""]

\* The middleware module and the settings route module right after load,
\* with the store's key absent.
PreviewIdle ==
    [nodeProd |-> TRUE, vercelProd |-> TRUE, redisUrl |-> TRUE,
     stored |-> "", mwConn |-> "none", stConn |-> "none",
     mwOut |-> NoDecision, postOut |-> NoPost]

\* ------------------------------------------------------- the recorder
\* RECORDING_ENABLED as set in the environment ("" when it is not set).
RecordingEnabledValues == {"", "true", "false", "1"}

\* new Recorder(): enabled only by the text "true"; the client is created
\* only when enabled and REDIS_URL is set.
RecorderEnabledByAnyValue(envEnabled, redisUrl) ==
    [envEnabled |-> envEnabled, redisUrl |-> redisUrl,
     enabled |-> TRUE, redis |-> redisUrl,
     originalFetch |-> "null", fetch |-> "native", records |-> <<>>,
     wrapped |-> "none", called |-> {}]

NewRecorder(envEnabled, redisUrl) ==
    [envEnabled |-> envEnabled, redisUrl |-> redisUrl,
     enabled |-> (envEnabled = "true"),
     redis |-> (envEnabled = "true" /\ redisUrl),
     originalFetch |-> "null", fetch |-> "native", records |-> <<>>,
     wrapped |-> "none", called |-> {}]

RecorderIdle == NewRecorder("", TRUE)

\* ---------------------------------------------------------------- state
NoId == <<0 - 1, 0 - 1>>

VARIABLES
    config,        \* the listener's config (createPersistentListener)
    now,           \* Date.now() at the latest start, in ms since the first
    startPc,       \* per session: "idle", "running" (run executing), "done"
    listenerId,    \* per session: <<time component, random suffix>>
    requestedDuration, \* per session: what the request asked for
    durationMs,    \* per session: the effective duration
    response,      \* per session: what start() returned
    runOutcome,    \* per session: what run did (returned r / threw e)
    aborted,       \* per session: abortController.signal.aborted
    abortCalls,    \* per session: number of calls of abortController.abort()
    abortEvents,   \* per session: number of "abort" events dispatched
    abortedBy,     \* per session: the session whose announcement fired it
    sidePc,        \* per session: position in setupRedisPubSub
    pubConn,       \* per session: pubClient's connection, "closed" or "open"
    subConn,       \* per session: subClient's connection, "closed" or "open"
    abortListener, \* per session: the wait's "abort" listener is registered
    timerMs,       \* per session: the wait's pending timer (0: none)
    subscribed,    \* per session: subscription active on the channel
    inbox,         \* per session: announcements in flight to its callback
    heard,         \* per session: senders whose announcement was queued to it
    externals,     \* announcements published so far by unmodelled sessions
    env,           \* process.env as the gateway route reads it
    gwPc,          \* per session: position in the gateway route's GET
    authHeader,    \* per session: request.headers.get("authorization")
    webhookUrl,    \* per session: the forwarding URL GET passes to the adapter
    preview,       \* the preview-branch key, the middleware and the settings route
    rec            \* the recorder singleton, globalThis.fetch and the recording list

startVars == <<now, startPc, listenerId, requestedDuration, durationMs, response,
              runOutcome>>
sigVars == <<aborted, abortCalls, abortEvents, abortedBy>>
sideVars == <<sidePc, pubConn, subConn, abortListener, timerMs>>
chanVars == <<subscribed, inbox, heard, externals>>
gwVars == <<gwPc, authHeader, webhookUrl>>
auxVars == <<env, gwVars, preview, rec>>
vars == <<config, auxVars, startVars, sigVars, sideVars, chanVars>>

InitSessions ==
    /\ now = 0
    /\ startPc = [s \in Sessions |-> "idle"]
    /\ listenerId = [s \in Sessions |-> NoId]
    /\ requestedDuration = [s \in Sessions |-> Undefined]
    /\ durationMs = [s \in Sessions |-> Undefined]
    /\ response = [s \in Sessions |-> NoResponse]
    /\ runOutcome = [s \in Sessions |-> NoOutcome]
    /\ aborted = [s \in Sessions |-> FALSE]
    /\ abortCalls = [s \in Sessions |-> 0]
    /\ abortEvents = [s \in Sessions |-> 0]
    /\ abortedBy = [s \in Sessions |-> 0]
    /\ sidePc = [s \in Sessions |-> "none"]
    /\ pubConn = [s \in Sessions |-> "closed"]
    /\ subConn = [s \in Sessions |-> "closed"]
    /\ abortListener = [s \in Sessions |-> FALSE]
    /\ timerMs = [s \in Sessions |-> 0]
    /\ subscribed = [s \in Sessions |-> FALSE]
    /\ inbox = [s \in Sessions |-> <<>>]
    /\ heard = [s \in Sessions |-> {}]
    /\ externals = 0
    /\ authHeader = [s \in Sessions |-> NoHeader]
    /\ webhookUrl = [s \in Sessions |-> NoUrl]

\* The gateway route's listener, with or without REDIS_URL.
\* The sessions of a listener started directly: no gateway request, no
\* settings or webhook traffic, no recording.
InitDirect ==
    /\ InitSessions
    /\ env = DirectEnv
    /\ gwPc = [s \in Sessions |-> "direct"]
    /\ preview = PreviewIdle
    /\ rec = RecorderIdle

Init ==
    /\ config \in {GatewayConfig(r) : r \in BOOLEAN}
    /\ InitDirect

\* ------------------------------------------------------------ start()
\* Milliseconds between the previous start and this one: two starts may
\* fall in the same millisecond.
ElapsedMs(s) == IF s = 1 THEN {0} ELSE {0, 1}

\* From the listenerId to the call of run: no await in between, one step.
\* setupRedisPubSub runs up to its first await inside this step: the clients
\* are created (createClient may throw: the task's promise is then rejected)
\* and the two connects are issued.
StartSession(s, getDuration, param) ==
    /\ startPc[s] = "idle"
    /\ \A t \in Sessions : t < s => startPc[t] # "idle"
    /\ \E t \in {now + dt : dt \in ElapsedMs(s)}, r \in 0..MaxRand :
        /\ now' = t
        /\ listenerId' = [listenerId EXCEPT ![s] = <<t, r>>]
    /\ requestedDuration' = [requestedDuration EXCEPT ![s] =
            RequestedDuration(getDuration, param)]
    /\ durationMs' = [durationMs EXCEPT ![s] =
            EffectiveDuration(RequestedDuration(getDuration, param), config)]
    /\ IF config.redisUrl
       THEN \E created \in BOOLEAN :
                sidePc' = [sidePc EXCEPT ![s] =
                               IF created THEN "connect" ELSE "rejected"]
       ELSE UNCHANGED sidePc
    /\ startPc' = [startPc EXCEPT ![s] = "running"]
    /\ UNCHANGED <<config, env, preview, rec, response, runOutcome, sigVars,
                   pubConn, subConn, abortListener, timerMs, chanVars>>

\* start() called on the listener directly, by a route that does nothing
\* else.
Start(s, getDuration, param) ==
    /\ StartSession(s, getDuration, param)
    /\ UNCHANGED gwVars

RunReturnAwaitsSideChannel(s, r) ==
    /\ startPc[s] = "running"
    /\ sidePc[s] \in {"none", "closed"}
    /\ startPc' = [startPc EXCEPT ![s] = "done"]
    /\ runOutcome' = [runOutcome EXCEPT ![s] = Returned(r)]
    /\ response' = [response EXCEPT ![s] = r]
    /\ UNCHANGED <<config, auxVars, now, listenerId, requestedDuration, durationMs,
                   sigVars, sideVars, chanVars>>

RunReturnReportsCancel(s, r) ==
    /\ startPc[s] = "running"
    /\ startPc' = [startPc EXCEPT ![s] = "done"]
    /\ runOutcome' = [runOutcome EXCEPT ![s] = Returned(r)]
    /\ response' = [response EXCEPT ![s] =
            IF aborted[s]
            THEN [status |-> 499, body |-> <<"listener cancelled">>]
            ELSE r]
    /\ UNCHANGED <<config, auxVars, now, listenerId, requestedDuration, durationMs,
                   sigVars, sideVars, chanVars>>

\* run resolves: start returns its response.
RunReturn(s, r) ==
    /\ startPc[s] = "running"
    /\ startPc' = [startPc EXCEPT ![s] = "done"]
    /\ runOutcome' = [runOutcome EXCEPT ![s] = Returned(r)]
    /\ response' = [response EXCEPT ![s] = r]
    /\ UNCHANGED <<config, auxVars, now, listenerId, requestedDuration, durationMs,
                   sigVars, sideVars, chanVars>>

RunThrowPropagates(s, e) ==
    /\ startPc[s] = "running"
    /\ startPc' = [startPc EXCEPT ![s] = "done"]
    /\ runOutcome' = [runOutcome EXCEPT ![s] = Threw(e)]
    /\ UNCHANGED <<config, auxVars, now, listenerId, requestedDuration,
                   durationMs, response, sigVars, sideVars, chanVars>>

\* run rejects: start returns the 500 response.
RunThrow(s, e) ==
    /\ startPc[s] = "running"
    /\ startPc' = [startPc EXCEPT ![s] = "done"]
    /\ runOutcome' = [runOutcome EXCEPT ![s] = Threw(e)]
    /\ response' = [response EXCEPT ![s] = ErrorResponse(config, e)]
    /\ UNCHANGED <<config, auxVars, now, listenerId, requestedDuration, durationMs,
                   sigVars, sideVars, chanVars>>

\* -------------------------------------------------- setupRedisPubSub()
\* The announcement a session publishes: its listenerId.  "from" is the
\* publishing session, kept for the record only (the callback never sees it).
Announcement(s) == [id |-> listenerId[s], from |-> s]

\* await Promise.all([pubClient.connect(), subClient.connect()]): each
\* connect succeeds or fails; a failure goes to catch and then finally.
Connect(s) ==
    /\ sidePc[s] = "connect"
    /\ \E pubOk \in BOOLEAN, subOk \in BOOLEAN :
        /\ pubConn' = [pubConn EXCEPT ![s] = IF pubOk THEN "open" ELSE "closed"]
        /\ subConn' = [subConn EXCEPT ![s] = IF subOk THEN "open" ELSE "closed"]
        /\ sidePc' = [sidePc EXCEPT ![s] =
                          IF pubOk /\ subOk THEN "subscribe" ELSE "cleanup"]
    /\ UNCHANGED <<config, auxVars, startVars, sigVars, abortListener, timerMs, chanVars>>

\* await subClient.subscribe(channel, callback).
SubscribeIgnoresFailure(s) ==
    /\ sidePc[s] = "subscribe"
    /\ \E ok \in BOOLEAN :
        /\ subscribed' = [subscribed EXCEPT ![s] = ok]
        /\ sidePc' = [sidePc EXCEPT ![s] = "publish"]
    /\ UNCHANGED <<config, auxVars, startVars, sigVars, pubConn, subConn, abortListener,
                   timerMs, inbox, heard, externals>>

Subscribe(s) ==
    /\ sidePc[s] = "subscribe"
    /\ \E ok \in BOOLEAN :
        /\ subscribed' = [subscribed EXCEPT ![s] = ok]
        /\ sidePc' = [sidePc EXCEPT ![s] = IF ok THEN "publish" ELSE "cleanup"]
    /\ UNCHANGED <<config, auxVars, startVars, sigVars, pubConn, subConn, abortListener,
                   timerMs, inbox, heard, externals>>

ReceiversNone == {}

\* The sessions a publish reaches: those subscribed at that moment, the
\* publisher included (its subClient is subscribed to the same channel).
Receivers == {t \in Sessions : subscribed[t]}

\* await pubClient.publish(channel, listenerId): the store queues the
\* announcement to every subscriber; the await has not resumed yet.
Publish(s) ==
    /\ sidePc[s] = "publish"
    /\ \E ok \in BOOLEAN :
        IF ok
        THEN /\ inbox' = [t \in Sessions |->
                            IF t \in Receivers
                            THEN Append(inbox[t], Announcement(s))
                            ELSE inbox[t]]
             /\ heard' = [t \in Sessions |->
                            IF t \in Receivers THEN heard[t] \cup {s}
                            ELSE heard[t]]
             /\ sidePc' = [sidePc EXCEPT ![s] = "published"]
        ELSE /\ sidePc' = [sidePc EXCEPT ![s] = "cleanup"]
             /\ UNCHANGED <<inbox, heard>>
    /\ UNCHANGED <<config, auxVars, startVars, sigVars, pubConn, subConn, abortListener,
                   timerMs, subscribed, externals>>

\* A session outside the modelled invocations (another deployment sharing
\* the store, an invocation beyond the bound) publishes its listenerId: an
\* id of its own, or one equal to a modelled session's (the ids are a
\* timestamp and a random suffix, which two sessions can share).  It is
\* recorded as sender 0.
ExternalId(k) == <<0 - 2, k>>
ExternalIds ==
    {ExternalId(externals)} \cup {listenerId[s] : s \in {t \in Sessions : startPc[t] # "idle"}}
ExternalAnnounce ==
    /\ config.redisUrl
    /\ externals < MaxExternal
    /\ externals' = externals + 1
    /\ \E id \in ExternalIds :
        inbox' = [t \in Sessions |->
                    IF t \in Receivers
                    THEN Append(inbox[t], [id |-> id, from |-> 0])
                    ELSE inbox[t]]
    /\ UNCHANGED <<config, auxVars, startVars, sigVars, sideVars, subscribed, heard>>

\* The publish await resumes: the wait's timer is set and the "abort"
\* listener is registered (a listener added to a signal that has already
\* fired is never called).
WaitStart(s) ==
    /\ sidePc[s] = "published"
    /\ sidePc' = [sidePc EXCEPT ![s] = "wait"]
    /\ timerMs' = [timerMs EXCEPT ![s] = TimerDelay(durationMs[s])]
    /\ abortListener' = [abortListener EXCEPT ![s] = TRUE]
    /\ UNCHANGED <<config, auxVars, startVars, sigVars, pubConn, subConn, chanVars>>

\* The subscription callback's test "message === listenerId".
IgnoresNothing(t, m) == FALSE

IgnoresEverything(t, m) == TRUE

IsOwnAnnouncement(t, m) == m.id = listenerId[t]

\* abortController.abort() changes the signal and dispatches "abort" only
\* when the signal has not fired yet.
AbortDispatchesAlways(t) == TRUE

AbortDispatches(t) == ~aborted[t]

DeliverEndsRun(t) ==
    /\ subscribed[t]
    /\ inbox[t] # <<>>
    /\ LET m == Head(inbox[t]) IN
        /\ inbox' = [inbox EXCEPT ![t] = Tail(inbox[t])]
        /\ IF IsOwnAnnouncement(t, m)
           THEN UNCHANGED <<sigVars, sidePc, abortListener, timerMs, startPc,
                            response>>
           ELSE /\ abortCalls' = [abortCalls EXCEPT ![t] = abortCalls[t] + 1]
                /\ aborted' = [aborted EXCEPT ![t] = TRUE]
                /\ IF AbortDispatches(t)
                   THEN /\ abortEvents' = [abortEvents EXCEPT ![t] = abortEvents[t] + 1]
                        /\ abortedBy' = [abortedBy EXCEPT ![t] = m.from]
                        /\ startPc' = [startPc EXCEPT ![t] =
                                IF @ = "running" THEN "done" ELSE @]
                        /\ response' = [response EXCEPT ![t] =
                                IF startPc[t] = "running"
                                THEN [status |-> 200, body |-> <<"listener cancelled">>]
                                ELSE @]
                        /\ IF abortListener[t] /\ sidePc[t] = "wait"
                           THEN /\ sidePc' = [sidePc EXCEPT ![t] = "cleanup"]
                                /\ timerMs' = [timerMs EXCEPT ![t] = 0]
                                /\ abortListener' = [abortListener EXCEPT ![t] = FALSE]
                           ELSE UNCHANGED <<sidePc, abortListener, timerMs>>
                   ELSE UNCHANGED <<abortEvents, abortedBy, sidePc, abortListener,
                                    timerMs, startPc, response>>
    /\ UNCHANGED <<config, auxVars, now, listenerId, requestedDuration, durationMs,
                   runOutcome, pubConn, subConn, subscribed, heard, externals>>

\* The store hands the next queued announcement to the session's callback.
Deliver(t) ==
    /\ subscribed[t]
    /\ inbox[t] # <<>>
    /\ LET m == Head(inbox[t]) IN
        /\ inbox' = [inbox EXCEPT ![t] = Tail(inbox[t])]
        /\ IF IsOwnAnnouncement(t, m)
           THEN UNCHANGED <<sigVars, sidePc, abortListener, timerMs>>
           ELSE /\ abortCalls' = [abortCalls EXCEPT ![t] = abortCalls[t] + 1]
                /\ aborted' = [aborted EXCEPT ![t] = TRUE]
                /\ IF AbortDispatches(t)
                   THEN /\ abortEvents' = [abortEvents EXCEPT ![t] = abortEvents[t] + 1]
                        /\ abortedBy' = [abortedBy EXCEPT ![t] = m.from]
                        /\ IF abortListener[t] /\ sidePc[t] = "wait"
                           THEN /\ sidePc' = [sidePc EXCEPT ![t] = "cleanup"]
                                /\ timerMs' = [timerMs EXCEPT ![t] = 0]
                                /\ abortListener' = [abortListener EXCEPT ![t] = FALSE]
                           ELSE UNCHANGED <<sidePc, abortListener, timerMs>>
                   ELSE UNCHANGED <<abortEvents, abortedBy, sidePc, abortListener,
                                    timerMs>>
    /\ UNCHANGED <<config, auxVars, startVars, pubConn, subConn, subscribed, heard,
                   externals>>

TimeoutAborts(s) ==
    /\ sidePc[s] = "wait"
    /\ timerMs[s] > 0
    /\ sidePc' = [sidePc EXCEPT ![s] = "cleanup"]
    /\ timerMs' = [timerMs EXCEPT ![s] = 0]
    /\ aborted' = [aborted EXCEPT ![s] = TRUE]
    /\ abortCalls' = [abortCalls EXCEPT ![s] = @ + 1]
    /\ abortEvents' = [abortEvents EXCEPT ![s] = IF aborted[s] THEN @ ELSE @ + 1]
    /\ UNCHANGED <<config, auxVars, startVars, abortedBy, pubConn, subConn,
                   abortListener, chanVars>>

TimeoutResponds(s) ==
    /\ sidePc[s] = "wait"
    /\ timerMs[s] > 0
    /\ sidePc' = [sidePc EXCEPT ![s] = "cleanup"]
    /\ timerMs' = [timerMs EXCEPT ![s] = 0]
    /\ response' = [response EXCEPT ![s] =
            IF startPc[s] = "running"
            THEN [status |-> 504, body |-> <<"listener timed out">>]
            ELSE @]
    /\ UNCHANGED <<config, auxVars, now, startPc, listenerId, requestedDuration,
                   durationMs, runOutcome, sigVars, pubConn, subConn,
                   abortListener, chanVars>>

\* The wait's timer fires (durationMs + 5000 have elapsed).
Timeout(s) ==
    /\ sidePc[s] = "wait"
    /\ timerMs[s] > 0
    /\ sidePc' = [sidePc EXCEPT ![s] = "cleanup"]
    /\ timerMs' = [timerMs EXCEPT ![s] = 0]
    /\ UNCHANGED <<config, auxVars, startVars, sigVars, pubConn, subConn, abortListener,
                   chanVars>>

\* finally: await subClient.unsubscribe(channel).catch(() => {}).  It can
\* succeed only on an open connection; a failure is swallowed.
Unsubscribe(s) ==
    /\ sidePc[s] = "cleanup"
    /\ \E ok \in BOOLEAN :
        /\ ok => subConn[s] = "open"
        /\ subscribed' = [subscribed EXCEPT ![s] = IF ok THEN FALSE ELSE @]
        /\ inbox' = [inbox EXCEPT ![s] = IF ok THEN <<>> ELSE @]
    /\ sidePc' = [sidePc EXCEPT ![s] = "quit"]
    /\ UNCHANGED <<config, auxVars, startVars, sigVars, pubConn, subConn, abortListener,
                   timerMs, heard, externals>>

QuitPublisherOnly(s) ==
    /\ sidePc[s] = "quit"
    /\ pubConn' = [pubConn EXCEPT ![s] = "closed"]
    /\ sidePc' = [sidePc EXCEPT ![s] = "closed"]
    /\ UNCHANGED <<config, auxVars, startVars, sigVars, subConn, abortListener,
                   timerMs, chanVars>>

QuitRetriesAfterFailure(s) ==
    /\ sidePc[s] = "quit"
    /\ pubConn' = [pubConn EXCEPT ![s] = "closed"]
    /\ subConn' = [subConn EXCEPT ![s] = "closed"]
    /\ subscribed' = [subscribed EXCEPT ![s] = FALSE]
    /\ inbox' = [inbox EXCEPT ![s] = <<>>]
    /\ sidePc' = [sidePc EXCEPT ![s] =
            IF s \in heard[s] THEN "closed" ELSE "connect"]
    /\ UNCHANGED <<config, auxVars, startVars, sigVars, abortListener, timerMs, heard,
                   externals>>

\* finally: await Promise.all([pubClient.quit(), subClient.quit()]), each
\* with its failure swallowed.  An open connection is closed, and the
\* subscription ends with it.
Quit(s) ==
    /\ sidePc[s] = "quit"
    /\ pubConn' = [pubConn EXCEPT ![s] = "closed"]
    /\ subConn' = [subConn EXCEPT ![s] = "closed"]
    /\ subscribed' = [subscribed EXCEPT ![s] = FALSE]
    /\ inbox' = [inbox EXCEPT ![s] = <<>>]
    /\ sidePc' = [sidePc EXCEPT ![s] = "closed"]
    /\ UNCHANGED <<config, auxVars, startVars, sigVars, abortListener, timerMs, heard,
                   externals>>

\* ------------------------------------------- GET /api/discord/gateway
\* What GET leaves alone before it calls start().
sessionVars == <<now, startPc, listenerId, requestedDuration, durationMs,
                 runOutcome, sigVars, sideVars, chanVars>>

AuthorizeHeaderFirst(s, header) ==
    /\ gwPc[s] = "idle"
    /\ authHeader' = [authHeader EXCEPT ![s] = header]
    /\ IF Unauthorized(header, env.cronSecret)
       THEN /\ response' = [response EXCEPT ![s] = UnauthorizedResponse]
            /\ gwPc' = [gwPc EXCEPT ![s] = "responded"]
       ELSE IF env.cronSecret = ""
       THEN /\ response' = [response EXCEPT ![s] = SecretMissingResponse]
            /\ gwPc' = [gwPc EXCEPT ![s] = "responded"]
       ELSE /\ gwPc' = [gwPc EXCEPT ![s] = "initialize"]
            /\ UNCHANGED response
    /\ UNCHANGED <<config, env, preview, rec, webhookUrl, sessionVars>>

\* From the request to the first await: the CRON_SECRET checks.  Without a
\* configured secret the answer is 500 whatever the header; with one, any
\* header other than `Bearer ${cronSecret}` is answered 401; otherwise GET
\* awaits bot.initialize().
Authorize(s, header) ==
    /\ gwPc[s] = "idle"
    /\ authHeader' = [authHeader EXCEPT ![s] = header]
    /\ IF env.cronSecret = ""
       THEN /\ response' = [response EXCEPT ![s] = SecretMissingResponse]
            /\ gwPc' = [gwPc EXCEPT ![s] = "responded"]
       ELSE IF Unauthorized(header, env.cronSecret)
       THEN /\ response' = [response EXCEPT ![s] = UnauthorizedResponse]
            /\ gwPc' = [gwPc EXCEPT ![s] = "responded"]
       ELSE /\ gwPc' = [gwPc EXCEPT ![s] = "initialize"]
            /\ UNCHANGED response
    /\ UNCHANGED <<config, env, preview, rec, webhookUrl, sessionVars>>

\* await bot.initialize() rejects: GET's promise rejects with it, and GET
\* has built no response.
InitializeRejects(s) ==
    /\ gwPc[s] = "initialize"
    /\ gwPc' = [gwPc EXCEPT ![s] = "faulted"]
    /\ UNCHANGED <<config, env, preview, rec, authHeader, webhookUrl, response,
                   sessionVars>>

\* bot.initialize() resolves and bot.getAdapter("discord") is undefined.
AdapterMissingStarts(s) ==
    /\ gwPc[s] = "initialize"
    /\ ~env.discordToken
    /\ gwPc' = [gwPc EXCEPT ![s] = "started"]
    /\ startPc' = [startPc EXCEPT ![s] = "running"]
    /\ UNCHANGED <<config, env, preview, rec, authHeader, webhookUrl, response,
                   now, listenerId, requestedDuration, durationMs, runOutcome,
                   sigVars, sideVars, chanVars>>

AdapterMissing(s) ==
    /\ gwPc[s] = "initialize"
    /\ ~env.discordToken
    /\ response' = [response EXCEPT ![s] = AdapterMissingResponse]
    /\ gwPc' = [gwPc EXCEPT ![s] = "responded"]
    /\ UNCHANGED <<config, env, preview, rec, authHeader, webhookUrl,
                   sessionVars>>

GatewayStartWithoutAdapterCheck(s, param) ==
    /\ gwPc[s] = "initialize"
    /\ webhookUrl' = [webhookUrl EXCEPT ![s] = WebhookUrl(env)]
    /\ gwPc' = [gwPc EXCEPT ![s] = "started"]
    /\ UNCHANGED authHeader
    /\ StartSession(s, NoGetDuration, param)

GatewayStartRequiresUrl(s, param) ==
    /\ gwPc[s] = "initialize"
    /\ env.discordToken
    /\ IF BaseUrl(env) = ""
       THEN /\ response' = [response EXCEPT ![s] =
                    [status |-> 500, body |-> <<"Deployment URL not configured">>]]
            /\ gwPc' = [gwPc EXCEPT ![s] = "responded"]
            /\ UNCHANGED <<config, env, preview, rec, authHeader, webhookUrl,
                           sessionVars>>
       ELSE /\ webhookUrl' = [webhookUrl EXCEPT ![s] = WebhookUrl(env)]
            /\ gwPc' = [gwPc EXCEPT ![s] = "started"]
            /\ UNCHANGED authHeader
            /\ StartSession(s, NoGetDuration, param)

\* bot.initialize() resolves and the adapter exists: GET computes the
\* forwarding URL and calls discordGateway.start(); no await in between.
GatewayStart(s, param) ==
    /\ gwPc[s] = "initialize"
    /\ env.discordToken
    /\ webhookUrl' = [webhookUrl EXCEPT ![s] = WebhookUrl(env)]
    /\ gwPc' = [gwPc EXCEPT ![s] = "started"]
    /\ UNCHANGED authHeader
    /\ StartSession(s, NoGetDuration, param)

\* The duration parameters of the requests to the gateway: the scheduler's
\* (none) and a manual one.
GatewayParams == CronParams \cup {Param(<<"1", "0", "0", "0", "0", "0">>)}

\* ------------------------------- settings route and webhook middleware
\* getRedisClient(), in both modules: the client and the promise of its one
\* connect() are module singletons.  The first call connects; a connect that
\* rejected stays cached in redisConnectPromise, so every later call awaits
\* the same rejection.  connOk is the outcome of a connect issued now.
AfterConnect(conn, connOk) ==
    IF conn = "none" THEN (IF connOk THEN "open" ELSE "rejected") ELSE conn

\* POST /api/settings/preview-branch with body { url }.  jsonOk: the body
\* parses; opOk: the store's set or del succeeds.  Every failure is answered
\* 500 by the catch, an unparsable URL 400; a URL is saved, an absent or
\* empty one clears the key.
SettingsPost(jsonOk, url, connOk, opOk) ==
    LET conn == IF jsonOk /\ preview.redisUrl
                THEN AfterConnect(preview.stConn, connOk)
                ELSE preview.stConn
        status ==
            IF ~jsonOk \/ ~preview.redisUrl \/ conn # "open" THEN 500
            ELSE IF url # "" /\ ~ParsesAsUrl(url) THEN 400
            ELSE IF ~opOk THEN 500
            ELSE 200
    IN  /\ preview' = [preview EXCEPT
                !.stConn = conn,
                !.stored = IF status = 200 THEN url ELSE @,
                !.postOut = [status |-> status,
                             url |-> IF status = 200 THEN url ELSE ""]]
        /\ UNCHANGED <<config, env, gwVars, rec, startVars, sigVars, sideVars,
                       chanVars>>

\* middleware(request) for a path its matcher selects.  Outside production
\* it passes the request on.  getPreviewBranchUrl() answers null when
\* REDIS_URL is unset, when the connect or the get fails (caught), and when
\* the key is absent; then the request passes on.  Otherwise the request is
\* rewritten to new URL(path, previewBranchUrl), which throws for a stored
\* URL that cannot serve as a base.
Middleware(path, connOk, getOk) ==
    LET reads == preview.nodeProd /\ preview.vercelProd /\ preview.redisUrl
        conn == IF reads THEN AfterConnect(preview.mwConn, connOk)
                ELSE preview.mwConn
        value == IF reads /\ conn = "open" /\ getOk THEN preview.stored ELSE ""
        out == IF ~(preview.nodeProd /\ preview.vercelProd) \/ value = ""
               THEN [kind |-> "next", target |-> <<>>]
               ELSE IF UsableAsBase(value)
               THEN [kind |-> "rewrite", target |-> <<value, path>>]
               ELSE [kind |-> "threw", target |-> <<>>]
    IN  /\ preview' = [preview EXCEPT
                !.mwConn = conn,
                !.mwOut = [kind |-> out.kind, target |-> out.target,
                           stored |-> preview.stored, path |-> path]]
        /\ UNCHANGED <<config, env, gwVars, rec, startVars, sigVars, sideVars,
                       chanVars>>

\* ------------------------------------------------------------ recorder
\* get isEnabled
IsEnabled == rec.enabled /\ rec.redis

\* appendRecord(record), awaited or not: without a client nothing happens;
\* a failing rPush is caught and logged.
Appended(type, pushOk) ==
    IF rec.redis /\ pushOk THEN Append(rec.records, type) ELSE rec.records

\* The three recording methods share their shape: return at once unless
\* isEnabled, else build the record and append it.
Record(fn, type, pushOk) ==
    /\ (IsEnabled /\ pushOk) => Len(rec.records) < MaxRecords
    /\ rec' = [rec EXCEPT
            !.called = @ \cup {fn},
            !.records = IF IsEnabled THEN Appended(type, pushOk) ELSE @]
    /\ UNCHANGED <<config, env, gwVars, preview, startVars, sigVars, sideVars,
                   chanVars>>

RecordWebhook(pushOk) == Record("recordWebhook", "webhook", pushOk)
RecordApiCall(pushOk) == Record("recordApiCall", "api-call", pushOk)
RecordGatewayEvent(pushOk) == Record("recordGatewayEvent", "gateway", pushOk)

\* startFetchRecording(): a no-op unless isEnabled and not yet started;
\* else globalThis.fetch is kept in originalFetch and replaced.
StartFetchRecording ==
    /\ rec' = [rec EXCEPT
            !.called = @ \cup {"startFetchRecording"},
            !.originalFetch =
                IF IsEnabled /\ rec.originalFetch = "null" THEN rec.fetch ELSE @,
            !.fetch =
                IF IsEnabled /\ rec.originalFetch = "null"
                THEN "recordingFetch" ELSE @]
    /\ UNCHANGED <<config, env, gwVars, preview, startVars, sigVars, sideVars,
                   chanVars>>

\* stopFetchRecording(): restores the kept fetch, if any.
StopFetchRecording ==
    /\ rec' = [rec EXCEPT
            !.called = @ \cup {"stopFetchRecording"},
            !.fetch = IF rec.originalFetch # "null" THEN rec.originalFetch ELSE @,
            !.originalFetch = "null"]
    /\ UNCHANGED <<config, env, gwVars, preview, startVars, sigVars, sideVars,
                   chanVars>>

\* A call of globalThis.fetch: the replacement records the call when the
\* URL matches a pattern (fire and forget); the native fetch records
\* nothing.
Fetch(matches, pushOk) ==
    /\ (rec.fetch = "recordingFetch" /\ matches /\ rec.redis /\ pushOk)
            => Len(rec.records) < MaxRecords
    /\ rec' = [rec EXCEPT
            !.called = @ \cup {"fetch"},
            !.records = IF rec.fetch = "recordingFetch" /\ matches
                        THEN Appended("fetch", pushOk) ELSE @]
    /\ UNCHANGED <<config, env, gwVars, preview, startVars, sigVars, sideVars,
                   chanVars>>

\* withRecording(adapter, platform, methods): the adapter itself unless
\* isEnabled, else a Proxy around it.
WithRecording ==
    /\ rec' = [rec EXCEPT
            !.called = @ \cup {"withRecording"},
            !.wrapped = IF ~IsEnabled THEN "adapter" ELSE "proxy"]
    /\ UNCHANGED <<config, env, gwVars, preview, startVars, sigVars, sideVars,
                   chanVars>>

\* ------------------------------------------------------- specifications
Next ==
    \/ \E s \in Sessions, p \in CronParams : Start(s, NoGetDuration, p)
    \/ \E s \in Sessions, r \in RunResponses : RunReturn(s, r)
    \/ \E s \in Sessions, e \in RunErrors : RunThrow(s, e)
    \/ \E s \in Sessions : Connect(s)
    \/ \E s \in Sessions : Subscribe(s)
    \/ \E s \in Sessions : Publish(s)
    \/ \E s \in Sessions : WaitStart(s)
    \/ \E s \in Sessions : Deliver(s)
    \/ \E s \in Sessions : Timeout(s)
    \/ \E s \in Sessions : Unsubscribe(s)
    \/ \E s \in Sessions : Quit(s)

\* The modelled invocations alone.
Spec == Init /\ [][Next]_vars

\* One invocation in full, among other sessions of the same listener name
\* that are known only by the announcements they publish.
NextSession ==
    \/ \E p \in CronParams : Start(1, NoGetDuration, p)
    \/ \E r \in RunResponses : RunReturn(1, r)
    \/ \E e \in RunErrors : RunThrow(1, e)
    \/ Connect(1)
    \/ Subscribe(1)
    \/ Publish(1)
    \/ WaitStart(1)
    \/ Deliver(1)
    \/ Timeout(1)
    \/ Unsubscribe(1)
    \/ Quit(1)
    \/ ExternalAnnounce

SessionSpec == Init /\ [][NextSession]_vars

\* The duration computation alone: one start() of a listener of any config,
\* with any getDuration option and any duration parameter.
InitDuration ==
    /\ config \in ListenerConfigs
    /\ InitDirect

NextDuration ==
    \E g \in GetDurationOptions, p \in DurationParams : Start(1, g, p)

DurationSpec == InitDuration /\ [][NextDuration]_vars

\* One request to the gateway endpoint, from the Authorization check to the
\* end of the session it may start, under every environment.
InitGateway ==
    /\ config \in {GatewayConfig(r) : r \in BOOLEAN}
    /\ InitSessions
    /\ env \in GatewayEnvs
    /\ gwPc = [s \in Sessions |-> "idle"]
    /\ preview = PreviewIdle
    /\ rec = RecorderIdle

NextGateway ==
    \/ \E h \in AuthHeaders : Authorize(1, h)
    \/ InitializeRejects(1)
    \/ AdapterMissing(1)
    \/ \E p \in GatewayParams : GatewayStart(1, p)
    \/ \E r \in RunResponses : RunReturn(1, r)
    \/ \E e \in RunErrors : RunThrow(1, e)
    \/ Connect(1)
    \/ Subscribe(1)
    \/ Publish(1)
    \/ WaitStart(1)
    \/ Deliver(1)
    \/ Timeout(1)
    \/ Unsubscribe(1)
    \/ Quit(1)
    \/ ExternalAnnounce

GatewaySpec == InitGateway /\ [][NextGateway]_vars

\* Several requests to the gateway endpoint of one deployment: the first is
\* followed to the end of the session it may start, the others to the end
\* of GET's checks (answered 500, 401 or 404, or left awaiting
\* bot.initialize()).
InitTrigger ==
    /\ config \in {GatewayConfig(r) : r \in BOOLEAN}
    /\ InitSessions
    /\ env \in {e \in GatewayEnvs :
                    /\ e.productionUrl = "app.example"
                    /\ e.vercelUrl = "" /\ e.publicBaseUrl = ""
                    /\ e.bypassSecret = ""}
    /\ gwPc = [s \in Sessions |-> "idle"]
    /\ preview = PreviewIdle
    /\ rec = RecorderIdle

\* The Authorization headers of these requests: none, the secret, another.
TriggerHeaders ==
    {NoHeader, Header(Bearer("s3cret")), Header(Bearer("wrong"))}

NextTrigger ==
    \/ \E s \in Sessions, h \in TriggerHeaders : Authorize(s, h)
    \/ \E s \in Sessions : InitializeRejects(s)
    \/ \E s \in Sessions : AdapterMissing(s)
    \/ \E p \in CronParams : GatewayStart(1, p)
    \/ \E r \in RunResponses : RunReturn(1, r)
    \/ \E e \in RunErrors : RunThrow(1, e)
    \/ Connect(1)
    \/ Subscribe(1)
    \/ Publish(1)
    \/ WaitStart(1)
    \/ Deliver(1)
    \/ Timeout(1)
    \/ Unsubscribe(1)
    \/ Quit(1)
    \/ ExternalAnnounce

TriggerSpec == InitTrigger /\ [][NextTrigger]_vars

\* The settings route and the middleware of one deployment, sharing the
\* store's preview-branch key.
InitPreview ==
    /\ config = GatewayConfig(TRUE)
    /\ InitSessions
    /\ env = DirectEnv
    /\ gwPc = [s \in Sessions |-> "direct"]
    /\ preview \in {[PreviewIdle EXCEPT !.nodeProd = a, !.vercelProd = b,
                                        !.redisUrl = c] :
                        a \in BOOLEAN, b \in BOOLEAN, c \in BOOLEAN}
    /\ rec = RecorderIdle

NextPreview ==
    \/ \E jsonOk \in BOOLEAN, url \in PostedUrls, connOk \in BOOLEAN,
          opOk \in BOOLEAN : SettingsPost(jsonOk, url, connOk, opOk)
    \/ \E path \in WebhookPaths, connOk \in BOOLEAN, getOk \in BOOLEAN :
          Middleware(path, connOk, getOk)

PreviewSpec == InitPreview /\ [][NextPreview]_vars

\* The recorder singleton of one process, under every setting of
\* RECORDING_ENABLED and REDIS_URL.
InitRecorder ==
    /\ config = GatewayConfig(TRUE)
    /\ InitSessions
    /\ env = DirectEnv
    /\ gwPc = [s \in Sessions |-> "direct"]
    /\ preview = PreviewIdle
    /\ rec \in {NewRecorder(v, r) : v \in RecordingEnabledValues, r \in BOOLEAN}

NextRecorder ==
    \/ \E ok \in BOOLEAN : RecordWebhook(ok)
    \/ \E ok \in BOOLEAN : RecordApiCall(ok)
    \/ \E ok \in BOOLEAN : RecordGatewayEvent(ok)
    \/ StartFetchRecording
    \/ StopFetchRecording
    \/ \E m \in BOOLEAN, ok \in BOOLEAN : Fetch(m, ok)
    \/ WithRecording

RecorderSpec == InitRecorder /\ [][NextRecorder]_vars

\* ================================================================ claims
\* Helpers of the statements below.
Started(s) == startPc[s] # "idle"
Running(s) == startPc[s] = "running"
\* b's announcement is still in flight to a.
Pending(a, b) == \E i \in 1..Len(inbox[a]) : inbox[a][i].from = b
\* The session has subscribed and published and has not begun cleanup.
Announced(s) == sidePc[s] \in {"published", "wait"}
\* This step is b's publish reaching the store.
Broadcast(b) == sidePc[b] = "publish" /\ sidePc'[b] = "published"
\* This step hands the head of a's queue to a's callback.
DeliveredTo(a) ==
    /\ subscribed[a] /\ subscribed'[a]
    /\ inbox[a] # <<>>
    /\ inbox'[a] = Tail(inbox[a])
MinInt(x, y) == IF x < y THEN x ELSE y

\* C1 (as stated): in every reachable state at most one session has its run
\* function executing with an un-fired cancellation signal.
C1_AtMostOneActive ==
    Cardinality({s \in Sessions : Running(s) /\ ~aborted[s]}) <= 1

\* C1 (amended): among the sessions whose run is executing, that have
\* subscribed and published and not begun cleanup, that have nothing in
\* flight to them, and whose listenerIds differ, at most one has an un-fired
\* cancellation signal.
C1_AtMostOneAfterHandoff ==
    \A a \in Sessions, b \in Sessions :
        (/\ a # b
         /\ Running(a) /\ Running(b)
         /\ Announced(a) /\ Announced(b)
         /\ inbox[a] = <<>> /\ inbox[b] = <<>>
         /\ listenerId[a] # listenerId[b])
        => (aborted[a] \/ aborted[b])

\* C1 witness: two running sessions past the hand-off, the older one
\* cancelled and the newer one not.
C1_Witness ==
    /\ Running(1) /\ Running(2)
    /\ Announced(1) /\ Announced(2)
    /\ inbox[1] = <<>> /\ inbox[2] = <<>>
    /\ listenerId[1] # listenerId[2]
    /\ aborted[1] /\ ~aborted[2]

\* C2 (as stated): for sessions A then B, with A's subscription open when B
\* publishes, A's cancellation signal has fired by the time B's run
\* completes.
C2_FiresBeforeRunCompletes ==
    \A a \in Sessions, b \in Sessions :
        (a < b /\ b \in heard[a] /\ startPc[b] = "done") => aborted[a]

\* C2 (amended): for sessions A then B with different listenerIds, with A's
\* subscription open when B publishes, A's cancellation signal has fired
\* once B's announcement has reached A's callback (A still subscribed and
\* the announcement no longer in flight), whether or not B's run has
\* completed by then.
C2_FiresOnceDelivered ==
    \A a \in Sessions, b \in Sessions :
        (/\ a < b
         /\ b \in heard[a]
         /\ subscribed[a]
         /\ ~Pending(a, b)
         /\ listenerId[a] # listenerId[b])
        => aborted[a]

\* C2 witness: B's run completed first, and A's signal fired on delivery.
C2_Witness ==
    /\ 2 \in heard[1]
    /\ subscribed[1]
    /\ ~Pending(1, 2)
    /\ listenerId[1] # listenerId[2]
    /\ startPc[2] = "done"
    /\ aborted[1]
    /\ abortedBy[1] = 2

\* C3 (as stated): newest listener wins: a session's cancellation signal is
\* fired only by the announcement of a session that started later, never by
\* that of one that started earlier.
C3_NewestWins ==
    \A s \in Sessions : abortedBy[s] \in Sessions => abortedBy[s] > s

\* C4: handing a session an announcement equal to its own listenerId leaves
\* its cancellation signal as it was and calls abort() no further time.
C4_IgnoresOwnAnnouncement ==
    [][\A t \in Sessions :
          (DeliveredTo(t) /\ Head(inbox[t]).id = listenerId[t])
          => (/\ aborted'[t] = aborted[t]
              /\ abortCalls'[t] = abortCalls[t]
              /\ abortEvents'[t] = abortEvents[t])]_vars

\* C4 witness: a session's own announcement has reached its callback and
\* its signal has not fired.
C4_Witness ==
    \E s \in Sessions :
        /\ s \in heard[s]
        /\ subscribed[s]
        /\ ~Pending(s, s)
        /\ ~aborted[s]

\* C5: a session's publish reaches the store only while its own
\* subscription is active on an open connection; after a failed subscribe
\* there is no publish.
C5_PublishAfterSubscribe ==
    [][\A s \in Sessions :
          (sidePc'[s] = "published" /\ sidePc[s] # "published")
          => (subscribed[s] /\ subConn[s] = "open" /\ sidePc[s] = "publish")]_vars

\* C5 witness: a session has published, its subscription active.
C5_Witness ==
    \E s \in Sessions : sidePc[s] = "published" /\ subscribed[s] /\ s \in heard[s]

\* C6 (as stated): once a session has subscribed (and published), the
\* announcement of any later-starting session published while the session's
\* run is still executing is queued to it.
C6_ObservesWhileRunning ==
    [][\A a \in Sessions, b \in Sessions :
          (a < b /\ a \in heard[a] /\ Running(a) /\ Broadcast(b))
          => b \in heard'[a]]_vars

\* C6 (amended): while a session's subscription is open (from its subscribe
\* until its cleanup unsubscribes, on cancellation or when durationMs plus
\* the grace period has elapsed), every announcement another session
\* publishes is queued to it, and an announcement handed to its callback
\* whose value differs from its listenerId leaves its signal fired.
C6_ObservesWhileSubscribed ==
    [][\A a \in Sessions :
          /\ \A b \in Sessions :
                (a # b /\ Broadcast(b) /\ subscribed[a])
                => (/\ b \in heard'[a]
                    /\ inbox'[a] = Append(inbox[a], Announcement(b)))
          /\ (DeliveredTo(a) /\ Head(inbox[a]).id # listenerId[a])
                => aborted'[a]]_vars

\* C6 witness: a later session's announcement was queued to an earlier,
\* still running session and has fired its signal.
C6_Witness ==
    /\ Running(1)
    /\ subscribed[1]
    /\ 2 \in heard[1]
    /\ ~Pending(1, 2)
    /\ abortedBy[1] = 2
    /\ Running(2)

\* C7: the effective duration is min(d, maxDurationMs) for a requested
\* numeric duration d, and min(defaultDurationMs, maxDurationMs) when none
\* is requested.
C7_EffectiveDuration ==
    \A s \in Sessions :
        Started(s) =>
            LET d == requestedDuration[s] IN
            /\ d.kind = "num" =>
                   durationMs[s] = Num(MinInt(d.v, config.maxDurationMs))
            /\ d.kind = "undefined" =>
                   durationMs[s] = Num(MinInt(config.defaultDurationMs,
                                              config.maxDurationMs))

\* C7 witness: a request above the maximum was clamped, under a config
\* whose default exceeds the maximum too.
C7_Witness ==
    /\ Started(1)
    /\ requestedDuration[1] = Num(999999999)
    /\ config.defaultDurationMs > config.maxDurationMs
    /\ durationMs[1] = Num(config.maxDurationMs)

\* C8 (as stated): whatever the duration hint, the effective duration is a
\* number in [0, maxDurationMs].
C8_DurationInRange ==
    \A s \in Sessions :
        Started(s) =>
            /\ durationMs[s].kind = "num"
            /\ 0 <= durationMs[s].v
            /\ durationMs[s].v <= config.maxDurationMs

\* C9: a fired cancellation signal stays fired; the "abort" event is
\* dispatched at most once, exactly when the signal fires; a call of abort()
\* on a fired signal changes nothing of the session.
C9_SignalFiresOnce ==
    [][\A s \in Sessions :
          /\ aborted[s] => aborted'[s]
          /\ abortEvents'[s] = (IF aborted'[s] THEN 1 ELSE 0)
          /\ (aborted[s] /\ abortCalls'[s] > abortCalls[s])
                => (/\ abortedBy'[s] = abortedBy[s]
                    /\ sidePc'[s] = sidePc[s]
                    /\ abortListener'[s] = abortListener[s]
                    /\ timerMs'[s] = timerMs[s])]_vars

\* C9 witness: abort() was called a second time on a fired signal.
C9_Witness ==
    \E s \in Sessions :
        abortCalls[s] >= 2 /\ aborted[s] /\ abortEvents[s] = 1

\* The session's coordination failed: it is in or past cleanup and its
\* announcement never reached the store.
CoordinationFailed(s) ==
    /\ config.redisUrl
    /\ sidePc[s] \in {"cleanup", "quit", "closed"}
    /\ s \notin heard[s]

\* C10: after a failed connect or subscribe (or publish) the invocation
\* waits for the run function alone, and what start returns is decided by
\* the run function alone: its response if it returned, status 500 if it
\* threw.
C10_RunDecidesAfterStoreFailure ==
    \A s \in Sessions :
        CoordinationFailed(s) =>
            /\ Running(s) =>
                  /\ ENABLED (\E r \in RunResponses : RunReturn(s, r))
                  /\ ENABLED (\E e \in RunErrors : RunThrow(s, e))
            /\ startPc[s] = "done" =>
                  /\ runOutcome[s].kind = "returned" =>
                         response[s] = runOutcome[s].resp
                  /\ runOutcome[s].kind = "threw" =>
                         /\ response[s].status = 500
                         /\ response[s].body[Len(response[s].body)] =
                                ErrorMessage(runOutcome[s].err)
                  /\ runOutcome[s].kind # "none"

\* C10 witness: the connect failed, the run threw, and start returned 500.
C10_Witness ==
    \E s \in Sessions :
        /\ CoordinationFailed(s)
        /\ sidePc[s] = "cleanup"
        /\ ~subscribed[s]
        /\ startPc[s] = "done"
        /\ runOutcome[s].kind = "threw"
        /\ response[s].status = 500

\* ------------------------------------------------ claims C11 to C20
\* The invocation has been given its terminal response.
Responded(s) == response[s] # NoResponse
\* The side-channel's wait ended by its timer: the session published, waited
\* and reached cleanup with its signal not fired.
TimerFired(s) ==
    /\ sidePc[s] \in {"cleanup", "quit", "closed"}
    /\ s \in heard[s]
    /\ ~aborted[s]
\* The request carried the configured secret as its bearer credential.
Authorized(s) ==
    /\ env.cronSecret # ""
    /\ authHeader[s] = Header(<<"Bearer", " ", env.cronSecret>>)
\* GET is past its Authorization checks for this request.
Checked(s) == gwPc[s] \notin {"idle", "direct"}

\* C11: when the run function throws (an Error, or a value String()
\* converts), start returns instead of throwing: a response with status 500
\* whose body is the tag "Failed to run <name> listener" and the error's
\* message (the Error's message, or the text of the thrown value).
C11_RunErrorGives500 ==
    \A s \in Sessions :
        runOutcome[s].kind = "threw" =>
            /\ startPc[s] = "done"
            /\ gwPc[s] # "faulted"
            /\ response[s].status = 500
            /\ response[s].body =
                   <<"error", "Failed to run", "discord-gateway", "listener",
                     "message",
                     IF runOutcome[s].err.isError
                     THEN runOutcome[s].err.message
                     ELSE runOutcome[s].err.str>>

\* C11 witness: run threw a value that is no Error and start returned 500
\* carrying its text.
C11_Witness ==
    /\ runOutcome[1].kind = "threw"
    /\ ~runOutcome[1].err.isError
    /\ response[1].status = 500
    /\ response[1].body[6] = "oops"

\* C12 (as stated): an invocation is never without a response once its
\* duration plus the grace period has elapsed (the side-channel's timer of
\* durationMs + 5000 has fired), whatever the run function does.
C12_RespondsWithinGrace ==
    \A s \in Sessions : TimerFired(s) => Responded(s)

\* C12 (amended): a response, once given, is never replaced; the response
\* is given either by GET rejecting the request or at the step the run
\* function settles; while the run function executes the invocation has no
\* response, whether or not the side-channel's timer has fired; once the
\* run function has settled it has one.
C12_RespondsOnceWhenRunSettles ==
    [][\A s \in Sessions :
          /\ Responded(s) => response'[s] = response[s]
          /\ (~Responded(s) /\ response'[s] # NoResponse) =>
                \/ gwPc[s] \in {"idle", "initialize"} /\ gwPc'[s] = "responded"
                \/ startPc[s] = "running" /\ startPc'[s] = "done"
          /\ startPc'[s] = "running" => response'[s] = NoResponse
          /\ startPc'[s] = "done" => response'[s] # NoResponse]_vars

\* C12 witness: the run function settled after the side-channel's timer had
\* fired, and the response was given only then.
C12_Witness ==
    /\ gwPc[1] = "started"
    /\ TimerFired(1)
    /\ startPc[1] = "done"
    /\ response[1].status = 200

\* C13: without a configured secret every request is answered 500 with the
\* body "CRON_SECRET not configured", whatever its Authorization header,
\* and no session is started.
C13_MissingSecretGives500 ==
    \A s \in Sessions :
        (env.cronSecret = "" /\ Checked(s)) =>
            /\ gwPc[s] = "responded"
            /\ response[s] =
                   [status |-> 500, body |-> <<"CRON_SECRET not configured">>]
            /\ startPc[s] = "idle"

\* C13 witness: no secret configured, a request whose header is the bearer
\* text of the missing secret, answered 500.
C13_Witness ==
    /\ env.cronSecret = ""
    /\ authHeader[1].present
    /\ authHeader[1].text \in {<<"Bearer", " ", "">>, <<"Bearer", " ", "undefined">>}
    /\ response[1].status = 500

\* C14: with a secret configured, a request whose Authorization header is
\* absent or differs from "Bearer <secret>" is answered 401 with the
\* plain-text body "Unauthorized", and no session is started.
C14_BadCredentialGives401 ==
    \A s \in Sessions :
        (env.cronSecret # "" /\ Checked(s) /\ ~Authorized(s)) =>
            /\ gwPc[s] = "responded"
            /\ response[s] = [status |-> 401, body |-> <<"Unauthorized">>]
            /\ startPc[s] = "idle"

\* C14 witness: a secret is configured and a request without the header was
\* answered 401.
C14_Witness ==
    /\ env.cronSecret # ""
    /\ Checked(1)
    /\ ~authHeader[1].present
    /\ response[1].status = 401

\* C15: a request carrying the correct secret, with no Discord adapter
\* configured, starts no session, and the response GET gives it (at the
\* step bot.initialize() resolves) is 404.
C15_MissingAdapterGives404 ==
    \A s \in Sessions :
        (Authorized(s) /\ ~env.discordToken /\ Checked(s)) =>
            /\ gwPc[s] \in {"initialize", "faulted", "responded"}
            /\ startPc[s] = "idle"
            /\ gwPc[s] = "responded" =>
                   response[s] =
                       [status |-> 404, body |-> <<"Discord adapter not configured">>]
            /\ gwPc[s] # "responded" => response[s] = NoResponse

\* C15 witness: the correct secret, no adapter, answered 404.
C15_Witness ==
    /\ Authorized(1)
    /\ ~env.discordToken
    /\ gwPc[1] = "responded"
    /\ response[1].status = 404

\* C16: with no deployment URL resolvable, an authorized request with the
\* adapter configured is never answered by GET itself; once
\* bot.initialize() has resolved the session is started with no forwarding
\* URL, and the response is the run function's (or the 500 of a run that
\* threw), none before the run function settles.
C16_MissingUrlStillStarts ==
    \A s \in Sessions :
        (Authorized(s) /\ env.discordToken /\ BaseUrl(env) = "" /\ Checked(s)) =>
            /\ gwPc[s] \in {"initialize", "faulted", "started"}
            /\ gwPc[s] = "started" =>
                   /\ webhookUrl[s] = <<>>
                   /\ Started(s)
                   /\ Running(s) => response[s] = NoResponse
                   /\ runOutcome[s].kind = "returned" =>
                          response[s] = runOutcome[s].resp
                   /\ response[s].status = 500 => runOutcome[s].kind = "threw"
            /\ gwPc[s] # "started" => (~Started(s) /\ response[s] = NoResponse)

\* C16 witness: no deployment URL, the session ran and its run function's
\* response was returned.
C16_Witness ==
    /\ Authorized(1) /\ env.discordToken /\ BaseUrl(env) = ""
    /\ gwPc[1] = "started"
    /\ webhookUrl[1] = <<>>
    /\ runOutcome[1].kind = "returned"
    /\ response[1].status = 200

\* C17 (as stated): with no deployment URL resolvable, a request that GET
\* has finished checking is answered by GET with an error response and no
\* session is started.
C17_MissingUrlIsTerminalError ==
    \A s \in Sessions :
        (BaseUrl(env) = "" /\ gwPc[s] \in {"responded", "started"}) =>
            /\ gwPc[s] = "responded"
            /\ response[s].status >= 400
            /\ ~Started(s)

\* C17 (amended): the responses GET gives before any session is started
\* are 500 for a missing secret, 401 for an absent or mismatched credential
\* and 404 for an unconfigured adapter, and each is given exactly under its
\* condition; a request that passes the three starts a session, whether or
\* not a deployment URL is resolvable.
C17_EarlyErrorsAreSecretAuthAdapter ==
    \A s \in Sessions :
        /\ gwPc[s] = "responded" =>
              /\ ~Started(s)
              /\ \/ response[s].status = 500 /\ env.cronSecret = ""
                 \/ response[s].status = 401 /\ env.cronSecret # "" /\ ~Authorized(s)
                 \/ response[s].status = 404 /\ Authorized(s) /\ ~env.discordToken
        /\ gwPc[s] = "started" =>
              (Authorized(s) /\ env.discordToken /\ Started(s))
        /\ (Checked(s) /\ Authorized(s) /\ env.discordToken) =>
              gwPc[s] # "responded"

\* C17 witness: no deployment URL resolvable, and the request was
\* rejected for its credential, not for the URL.
C17_Witness ==
    /\ BaseUrl(env) = ""
    /\ env.discordToken
    /\ gwPc[1] = "responded"
    /\ response[1].status = 401

\* C18 (as stated): no two sessions of the listener name have equal
\* listenerIds, sessions started in the same millisecond included.
C18_UniqueListenerIds ==
    \A a \in Sessions, b \in Sessions :
        (a # b /\ Started(a) /\ Started(b)) => listenerId[a] # listenerId[b]

\* The middleware runs in production (NODE_ENV and VERCEL_ENV).
InProduction == preview.nodeProd /\ preview.vercelProd

\* C19 (as stated): a webhook request reaching the production middleware
\* while a URL saved through the settings POST is in the store is proxied
\* to that URL; one reaching it while the key is clear passes through.
C19_ProxiedWhileSaved ==
    (InProduction /\ preview.mwOut.kind # "none") =>
        IF preview.mwOut.stored # ""
        THEN /\ preview.mwOut.kind = "rewrite"
             /\ preview.mwOut.target = <<preview.mwOut.stored, preview.mwOut.path>>
        ELSE preview.mwOut.kind = "next"

\* C20: with RECORDING_ENABLED not set, recordWebhook, recordApiCall,
\* recordGatewayEvent and startFetchRecording write nothing to the store
\* and leave globalThis.fetch as it was, and withRecording returns the
\* adapter itself, with or without REDIS_URL.
C20_DisabledRecorderIsNoOp ==
    [][rec.envEnabled = "" =>
          /\ rec'.records = rec.records
          /\ rec'.fetch = rec.fetch
          /\ rec'.originalFetch = rec.originalFetch
          /\ rec'.wrapped \in {rec.wrapped, "adapter"}
          /\ rec'.records = <<>>
          /\ rec'.fetch = "native"]_vars

\* C20 witness: RECORDING_ENABLED not set, REDIS_URL set, each of the five
\* functions has been called, nothing is recorded, fetch is the native one
\* and withRecording returned the adapter.
C20_Witness ==
    /\ rec.envEnabled = ""
    /\ rec.redisUrl
    /\ {"recordWebhook", "recordApiCall", "recordGatewayEvent",
        "startFetchRecording", "withRecording", "fetch"} \subseteq rec.called
    /\ rec.records = <<>>
    /\ rec.fetch = "native"
    /\ rec.wrapped = "adapter"

\* ------------------------------------------------ claims C21 to C30
\* C21 (as stated): once the signal has fired the side-channel is not left
\* waiting: no session is in its wait with a fired signal, wherever in the
\* procedure the signal fired.
C21_CleanupOnceSignalFired ==
    \A s \in Sessions : sidePc[s] = "wait" => ~aborted[s]

C23_SideChannelNeverRejects ==
    \A s \in Sessions : sidePc[s] # "rejected"

\* C24: the step that fires a session's signal leaves its run function, its
\* run outcome and its response as they were; a session has a response
\* exactly when its run function has returned or thrown, signal fired or
\* not.
C24_AbortNeverEndsRun ==
    [][\A s \in Sessions :
          /\ (~aborted[s] /\ aborted'[s]) =>
                (/\ startPc'[s] = startPc[s]
                 /\ runOutcome'[s] = runOutcome[s]
                 /\ response'[s] = response[s])
          /\ aborted'[s] =>
                (/\ (response'[s] # NoResponse) = (runOutcome'[s].kind # "none")
                 /\ (startPc'[s] = "done") = (runOutcome'[s].kind # "none"))]_vars

\* C24 witness: the signal has fired, the side-channel has completed, and
\* the run function is still executing with no response given.
C24_Witness ==
    /\ aborted[1]
    /\ sidePc[1] = "closed"
    /\ Running(1)
    /\ response[1] = NoResponse

\* C25: a session's signal goes from un-fired to fired, and abort() is
\* called, only in a step that hands its callback a message different from
\* its listenerId; timer expiry, failures and cleanup never do it.
C25_OnlyForeignMessageFires ==
    [][\A s \in Sessions :
          (aborted'[s] # aborted[s] \/ abortCalls'[s] # abortCalls[s]
             \/ abortEvents'[s] # abortEvents[s])
          => (/\ DeliveredTo(s)
              /\ Head(inbox[s]).id # listenerId[s]
              /\ aborted'[s])]_vars

\* C25 witness: a session whose wait ended by its timer and whose
\* side-channel completed, its signal un-fired.
C25_Witness ==
    /\ sidePc[1] = "closed"
    /\ 1 \in heard[1]
    /\ ~aborted[1]
    /\ abortCalls[1] = 0
    /\ startPc[1] = "done"

\* C26: the run function is invoked in the step that starts the
\* side-channel, before any connect; whatever the side-channel's position,
\* a running run function can return or throw and start then returns.
C26_SideChannelNeverBlocksRun ==
    \A s \in Sessions :
        /\ sidePc[s] # "none" => Started(s)
        /\ (gwPc[s] = "started" /\ config.redisUrl) => sidePc[s] # "none"
        /\ Running(s) =>
              /\ ENABLED (\E r \in RunResponses : RunReturn(s, r))
              /\ ENABLED (\E e \in RunErrors : RunThrow(s, e))

\* C26 witness: start has returned the run function's response while the
\* side-channel has not yet connected.
C26_Witness ==
    /\ gwPc[1] = "started"
    /\ sidePc[1] = "connect"
    /\ startPc[1] = "done"
    /\ response[1].status = 200

\* C27: when the run function returns a response, start returns that
\* response, status and body, whether or not the signal fired meanwhile.
C27_ReturnsRunResponse ==
    \A s \in Sessions :
        runOutcome[s].kind = "returned" =>
            /\ startPc[s] = "done"
            /\ response[s].status = runOutcome[s].resp.status
            /\ response[s].body = runOutcome[s].resp.body
            /\ response[s] \in RunResponses

\* C27 witness: a cancelled run returned 503 and start returned 503.
C27_Witness ==
    /\ gwPc[1] = "started"
    /\ aborted[1]
    /\ runOutcome[1].kind = "returned"
    /\ runOutcome[1].resp.status = 503
    /\ response[1].status = 503

\* C28: once a session's connect, subscribe or publish has failed, its
\* side-channel only moves through cleanup: it publishes nothing, gains no
\* subscription and opens no connection.
C28_FailedCoordinationAbandoned ==
    [][\A s \in Sessions :
          CoordinationFailed(s) =>
              /\ sidePc'[s] \in {"cleanup", "quit", "closed"}
              /\ s \notin heard'[s]
              /\ \A t \in Sessions : ~(Pending(t, s))'
              /\ subscribed'[s] => subscribed[s]
              /\ pubConn'[s] = "open" => pubConn[s] = "open"
              /\ subConn'[s] = "open" => subConn[s] = "open"]_vars

\* C28 witness: the connect succeeded, the subscribe or publish failed, and
\* the side-channel completed without publishing.
C28_Witness ==
    /\ CoordinationFailed(1)
    /\ sidePc[1] = "closed"
    /\ Running(1)
    /\ heard[1] = {}

\* The request is one GET must reject: no secret configured, a credential
\* other than the secret, or no adapter.
MustReject(s) ==
    /\ Checked(s)
    /\ (env.cronSecret = "" \/ ~Authorized(s) \/ ~env.discordToken)

\* C29: a request GET must reject gets no listenerId, never runs the run
\* function or the side-channel, publishes nothing, and fires no session's
\* signal.
C29_RejectedCreatesNoSession ==
    \A s \in Sessions :
        MustReject(s) =>
            /\ listenerId[s] = NoId
            /\ startPc[s] = "idle"
            /\ sidePc[s] = "none"
            /\ gwPc[s] # "started"
            /\ \A t \in Sessions :
                  /\ s \notin heard[t]
                  /\ ~Pending(t, s)
                  /\ abortedBy[t] # s

\* C29 witness: a request was answered 401 while another session's
\* listener is running, subscribed and not cancelled.
C29_Witness ==
    /\ gwPc[2] = "responded"
    /\ response[2].status = 401
    /\ Running(1)
    /\ sidePc[1] = "wait"
    /\ subscribed[1]
    /\ ~aborted[1]

\* C30 (as stated): of two sessions that have both subscribed and
\* published and are both still subscribed, with no announcement in flight
\* to either, at most one has an un-fired signal.
C30_AtMostOneUnfiredOnceDelivered ==
    \A a \in Sessions, b \in Sessions :
        (/\ a # b
         /\ a \in heard[a] /\ b \in heard[b]
         /\ subscribed[a] /\ subscribed[b]
         /\ inbox[a] = <<>> /\ inbox[b] = <<>>)
        => (aborted[a] \/ aborted[b])
====
